---- MODULE Spec2Model ----
(***************************************************************************)
(* State-machine model of the LeafHealth React client:                     *)
(*   HomePage.jsx    - image selection, POST /api/predict, reset           *)
(*   ChatPage.jsx    - history restore, attachment, POST /api/chat         *)
(*   HistoryPage.jsx - GET /api/predictions                                *)
(*   Layout          - bottom navigation between the three pages           *)
(* Every event handler is one atomic action (single-threaded event loop);  *)
(* file reads and HTTP requests are records in flight that complete in any *)
(* order.  JavaScript strings are TLA+ strings; null and undefined are the *)
(* reserved strings below.                                                 *)
(* Bookkeeping that is not program state: lastOp and settled record what   *)
(* ran last, toast is the notification of the last handler, the gen of a   *)
(* reader and the call of a request or message number them, the image of a *)
(* request is selectedImage at the moment of the call, lastLoaded          *)
(* remembers the last history list the service delivered.                  *)
(***************************************************************************)
EXTENDS Integers, Sequences, FiniteSets, TLC

\* ---------------------------------------------------------------- bounds
MaxHomeReads == 2
MaxChatReads == 1
MaxPredicts == 2
MaxSends == 2

\* ------------------------------------------------------- JavaScript values
null == "null"
undefined == "undefined"

NoToast == [level |-> "none", text |-> ""]
nullPrediction == [isNull |-> TRUE]

Truthy(s) == s # null /\ s # undefined /\ s # ""

NoneSettled ==
  [req |-> [call |-> 0, image_base64 |-> null, image |-> null],
   body |-> nullPrediction, detail |-> undefined]

\* ------------------------------------------------------- string functions
Whitespace == {" ", "\t", "\n"}

CharAt(s, i) == SubSeq(s, i, i)

startsWith(s, p) == Len(s) >= Len(p) /\ SubSeq(s, 1, Len(p)) = p

RECURSIVE TrimStart(_)
TrimStart(s) ==
  IF Len(s) > 0 /\ CharAt(s, 1) \in Whitespace
    THEN TrimStart(SubSeq(s, 2, Len(s)))
    ELSE s

RECURSIVE TrimEnd(_)
TrimEnd(s) ==
  IF Len(s) > 0 /\ CharAt(s, Len(s)) \in Whitespace
    THEN TrimEnd(SubSeq(s, 1, Len(s) - 1))
    ELSE s

trim(s) == TrimEnd(TrimStart(s))

\* index of the first "," at or after position i, 0 when there is none
RECURSIVE CommaFrom(_, _)
CommaFrom(s, i) ==
  IF i > Len(s) THEN 0
  ELSE IF CharAt(s, i) = "," THEN i
  ELSE CommaFrom(s, i + 1)

\* variant: the data URI is sent as it is
SplitComma1_WholeUri(s) == s

\* s.split(',')[1]: the piece between the first and the second comma
SplitComma1(s) ==
  LET c1 == CommaFrom(s, 1) IN
  IF c1 = 0 THEN undefined
  ELSE LET c2 == CommaFrom(s, c1 + 1) IN
       IF c2 = 0 THEN SubSeq(s, c1 + 1, Len(s))
       ELSE SubSeq(s, c1 + 1, c2 - 1)

\* ------------------------------------------------------------- user input
\* file candidates offered by the file dialog; NoFile is e.target.files[0]
\* of a change event without a file
NoFile == [type |-> "", body |-> "", none |-> TRUE]

Files ==
  { [type |-> "image/jpeg", body |-> "QUJD", none |-> FALSE],
    [type |-> "image/png",  body |-> "REVG", none |-> FALSE],
    [type |-> "text/plain", body |-> "SktM", none |-> FALSE] }

\* file candidates offered to the attachment input of the chat page
ChatFiles == {f \in Files : f.type # "image/png"}

\* FileReader.readAsDataURL: reader.result at onloadend; ok = FALSE is a
\* read that ended in an error, which leaves reader.result null
readAsDataURL(f, ok) ==
  IF ok THEN "data:" \o f.type \o ";base64," \o f.body ELSE null

\* response bodies of POST /api/predict
PredictionBodies ==
  { [id |-> "p1", disease_name |-> "Leaf Blight", confidence |-> 92,
     description |-> "Fungal infection",
     treatments |-> <<"Remove affected leaves", "Apply fungicide">>,
     prevention_tips |-> <<"Avoid overwatering">>],
    [id |-> "p2", disease_name |-> "Healthy", confidence |-> 88,
     description |-> "No disease found",
     treatments |-> <<"Apply fungicide", "Remove affected leaves">>,
     prevention_tips |-> <<>>] }

\* error.response?.data?.detail of a failed POST /api/predict
ErrorDetails == {undefined, "", "Model unavailable"}

VARIABLES
  route,              \* location.pathname: the page the router has mounted
  homeSelectedImage,  \* HomePage selectedImage
  homeIsLoading,      \* HomePage isLoading
  prediction,         \* HomePage prediction
  homeReaders,        \* HomePage FileReaders whose onloadend has not fired
  homeReads,          \* number of reads HomePage has started
  predictReqs,        \* POST /api/predict requests awaiting their response
  predictCalls,       \* number of POST /api/predict requests issued
  settled,            \* the POST /api/predict settled last and its outcome
  messages,           \* ChatPage messages
  inputMessage,       \* ChatPage inputMessage
  chatIsLoading,      \* ChatPage isLoading
  sessionId,          \* ChatPage sessionId
  chatSelectedImage,  \* ChatPage selectedImage
  chatReaders,        \* ChatPage FileReaders whose onloadend has not fired
  chatReads,          \* number of reads ChatPage has started
  chatReqs,           \* POST /api/chat requests awaiting their response
  sendCount,          \* number of POST /api/chat requests issued
  historyReq,         \* the GET /api/chat/history request of the mount effect
  now,                \* the clock read by Date.now() and new Date(), in
                      \* ticks since the chat page was mounted
  predictions,        \* HistoryPage predictions
  historyIsLoading,   \* HistoryPage isLoading
  predictionsReq,     \* the GET /api/predictions request of the mount effect
  lastLoaded,         \* response.data of the last GET /api/predictions that
                      \* succeeded in any mount (empty before the first)
  toast,              \* the notification raised by the handler that ran last
  lastOp              \* the handler that ran last, and its outcome

homeVars == <<homeSelectedImage, homeIsLoading, prediction, homeReaders,
              homeReads, predictReqs, predictCalls, settled>>

chatVars == <<messages, inputMessage, chatIsLoading, sessionId,
              chatSelectedImage, chatReaders, chatReads, chatReqs, sendCount,
              historyReq, now>>

historyVars == <<predictions, historyIsLoading, predictionsReq, lastLoaded>>

pageVars == <<homeVars, chatVars, historyVars>>

vars == <<route, pageVars, toast, lastOp>>

\* ================================================================ HomePage

HomeInit ==
  /\ homeSelectedImage = null
  /\ homeIsLoading = FALSE
  /\ prediction = nullPrediction
  /\ homeReaders = {}
  /\ homeReads = 0
  /\ predictReqs = {}
  /\ predictCalls = 0
  /\ settled = NoneSettled

\* the upload area with the file input is rendered only without a prediction
HomeFileInputRendered == prediction = nullPrediction

\* variant: the MIME type test is missing
HomeFileIsImage_AnyType(f) == TRUE

\* file.type.startsWith('image/') of HomePage handleImageSelect
HomeFileIsImage(f) == startsWith(f.type, "image/")

HomeHandleImageSelect(f) ==
  /\ route = "/"
  /\ HomeFileInputRendered
  /\ (~f.none /\ HomeFileIsImage(f)) => homeReads < MaxHomeReads
  /\ IF f.none
       THEN UNCHANGED vars
     ELSE IF ~HomeFileIsImage(f)
       THEN /\ toast' = [level |-> "error",
                         text |-> "Please select a valid image file"]
            /\ lastOp' = "homeSelectRejected"
            /\ UNCHANGED <<route, pageVars>>
     ELSE /\ homeReaders' = homeReaders \cup {[gen |-> homeReads + 1, file |-> f]}
          /\ homeReads' = homeReads + 1
          /\ toast' = NoToast
          /\ lastOp' = "homeSelectRead"
          /\ UNCHANGED <<homeSelectedImage, homeIsLoading, prediction,
                         predictReqs, predictCalls, settled, chatVars, historyVars, route>>

\* reader.onloadend of reader r; gen is the number of the read, not a field
\* of the FileReader
HomeReaderLoadEnd(r, ok) ==
  /\ route = "/"
  /\ r \in homeReaders
  /\ homeReaders' = homeReaders \ {r}
  /\ homeSelectedImage' = readAsDataURL(r.file, ok)
  /\ toast' = NoToast
  /\ lastOp' = "homeLoadEnd"
  /\ UNCHANGED <<homeIsLoading, prediction, homeReads, predictReqs,
                 predictCalls, settled, chatVars, historyVars, route>>

\* analyzeImage up to the await of axios.post
analyzeImage ==
  IF ~Truthy(homeSelectedImage)
    THEN /\ toast' = [level |-> "error", text |-> "Please select an image first"]
         /\ lastOp' = "analyzeNoImage"
         /\ UNCHANGED <<route, pageVars>>
    ELSE /\ homeIsLoading' = TRUE
         /\ predictCalls' = predictCalls + 1
         /\ predictReqs' = predictReqs \cup
              {[call |-> predictCalls + 1,
                image_base64 |-> SplitComma1(homeSelectedImage),
                image |-> homeSelectedImage]}
         /\ toast' = NoToast
         /\ lastOp' = "analyze"
         /\ UNCHANGED <<homeSelectedImage, prediction, homeReaders,
                        homeReads, settled, chatVars, historyVars, route>>

AnalyzeButtonRendered == prediction = nullPrediction

\* variant: the button is not disabled while a request is pending
AnalyzeButtonDisabled_IgnoresLoading == ~Truthy(homeSelectedImage)

AnalyzeButtonDisabled == ~Truthy(homeSelectedImage) \/ homeIsLoading

\* a click on the analyze button; a disabled button dispatches no onClick
AnalyzeClick ==
  /\ route = "/"
  /\ AnalyzeButtonRendered
  /\ ~AnalyzeButtonDisabled => predictCalls < MaxPredicts
  /\ IF AnalyzeButtonDisabled
       THEN UNCHANGED vars
       ELSE analyzeImage

\* variant: the loading flag is cleared on the failure path only
PredictSuccess_NoFinally(q, body) ==
  /\ route = "/"
  /\ q \in predictReqs
  /\ predictReqs' = predictReqs \ {q}
  /\ prediction' = body
  /\ settled' = [req |-> q, body |-> body, detail |-> undefined]
  /\ toast' = [level |-> "success", text |-> "Analysis complete!"]
  /\ lastOp' = "predictSuccess"
  /\ UNCHANGED <<homeSelectedImage, homeIsLoading, homeReaders, homeReads,
                 predictCalls, chatVars, historyVars, route>>

\* axios.post resolves: the rest of the try block, then finally
PredictSuccess(q, body) ==
  /\ route = "/"
  /\ q \in predictReqs
  /\ predictReqs' = predictReqs \ {q}
  /\ prediction' = body
  /\ settled' = [req |-> q, body |-> body, detail |-> undefined]
  /\ toast' = [level |-> "success", text |-> "Analysis complete!"]
  /\ homeIsLoading' = FALSE
  /\ lastOp' = "predictSuccess"
  /\ UNCHANGED <<homeSelectedImage, homeReaders, homeReads, predictCalls,
                 chatVars, historyVars, route>>

\* axios.post rejects: the catch block, then finally
PredictFail(q, detail) ==
  /\ route = "/"
  /\ q \in predictReqs
  /\ predictReqs' = predictReqs \ {q}
  /\ settled' = [req |-> q, body |-> nullPrediction, detail |-> detail]
  /\ toast' = [level |-> "error",
               text |-> IF Truthy(detail) THEN detail
                        ELSE "Failed to analyze image"]
  /\ homeIsLoading' = FALSE
  /\ lastOp' = "predictFail"
  /\ UNCHANGED <<homeSelectedImage, prediction, homeReaders, homeReads,
                 predictCalls, chatVars, historyVars, route>>

\* the reset button (no prediction, image selected) or the
\* scan-another button (prediction shown)
ResetButtonRendered ==
  \/ prediction # nullPrediction
  \/ Truthy(homeSelectedImage)

resetAnalysis ==
  /\ route = "/"
  /\ ResetButtonRendered
  /\ homeSelectedImage' = null
  /\ prediction' = nullPrediction
  /\ toast' = NoToast
  /\ lastOp' = "reset"
  /\ UNCHANGED <<homeIsLoading, homeReaders, homeReads, predictReqs,
                 predictCalls, settled, chatVars, historyVars, route>>

HomeNext ==
  \/ \E f \in Files \cup {NoFile} : HomeHandleImageSelect(f)
  \/ \E r \in homeReaders, ok \in BOOLEAN : HomeReaderLoadEnd(r, ok)
  \/ AnalyzeClick
  \/ \E q \in predictReqs, body \in PredictionBodies : PredictSuccess(q, body)
  \/ \E q \in predictReqs, detail \in ErrorDetails : PredictFail(q, detail)
  \/ resetAnalysis

\* ================================================================ ChatPage

\* composer texts the user can type
Texts == {"", " \t", "hi"}

\* response.data.response of POST /api/chat
ReplyTexts == {"Water less"}

\* response.data of GET /api/chat/history/{sessionId}; call is not a field
\* of the JavaScript objects: it tags a message with the number of the
\* sendMessage call that produced it (0: delivered by the history fetch)
HistoryResponses ==
  { <<>>,
    << [role |-> "user", message |-> "old question", image_base64 |-> null,
        timestamp |-> 0, call |-> 0],
       [role |-> "assistant", message |-> "old answer",
        image_base64 |-> null, timestamp |-> 0, call |-> 0] >> }

ChatInit ==
  /\ messages = <<>>
  /\ inputMessage = ""
  /\ chatIsLoading = FALSE
  /\ now = 0
  /\ sessionId = "session_" \o ToString(now)
  /\ chatSelectedImage = null
  /\ chatReaders = {}
  /\ chatReads = 0
  /\ chatReqs = {}
  /\ sendCount = 0
  \* the mount effect has called loadHistory, which is at its await
  /\ historyReq = [state |-> "pending", session_id |-> sessionId]

\* loadHistory: axios.get resolves
ChatHistoryLoaded(data) ==
  /\ route = "/chat"
  /\ historyReq.state = "pending"
  /\ historyReq' = [historyReq EXCEPT !.state = "loaded"]
  /\ messages' = data
  /\ toast' = NoToast
  /\ lastOp' = "historyLoaded"
  /\ UNCHANGED <<inputMessage, chatIsLoading, sessionId, chatSelectedImage,
                 chatReaders, chatReads, chatReqs, sendCount, now, homeVars, historyVars, route>>

\* loadHistory: axios.get rejects (console.error only)
ChatHistoryFailed ==
  /\ route = "/chat"
  /\ historyReq.state = "pending"
  /\ historyReq' = [historyReq EXCEPT !.state = "failed"]
  /\ toast' = NoToast
  /\ lastOp' = "historyFailed"
  /\ UNCHANGED <<messages, inputMessage, chatIsLoading, sessionId,
                 chatSelectedImage, chatReaders, chatReads, chatReqs,
                 sendCount, now, homeVars, historyVars, route>>

\* onChange of the chat input
setInputMessage(t) ==
  /\ route = "/chat"
  /\ t # inputMessage
  /\ inputMessage' = t
  /\ toast' = NoToast
  /\ lastOp' = "input"
  /\ UNCHANGED <<messages, chatIsLoading, sessionId, chatSelectedImage,
                 chatReaders, chatReads, chatReqs, sendCount, historyReq,
                 now, homeVars, historyVars, route>>

\* file.type.startsWith('image/') of ChatPage handleImageSelect
ChatFileIsImage(f) == startsWith(f.type, "image/")

ChatHandleImageSelect(f) ==
  /\ route = "/chat"
  /\ (~f.none /\ ChatFileIsImage(f)) => chatReads < MaxChatReads
  /\ IF f.none
       THEN UNCHANGED vars
     ELSE IF ~ChatFileIsImage(f)
       THEN /\ toast' = [level |-> "error",
                         text |-> "Please select a valid image file"]
            /\ lastOp' = "chatSelectRejected"
            /\ UNCHANGED <<route, pageVars>>
     ELSE /\ chatReaders' = chatReaders \cup {[gen |-> chatReads + 1, file |-> f]}
          /\ chatReads' = chatReads + 1
          /\ toast' = NoToast
          /\ lastOp' = "chatSelectRead"
          /\ UNCHANGED <<messages, inputMessage, chatIsLoading, sessionId,
                         chatSelectedImage, chatReqs, sendCount, historyReq,
                         now, homeVars, historyVars, route>>

\* reader.onloadend of reader r; gen is the number of the read, not a field
\* of the FileReader
ChatReaderLoadEnd(r, ok) ==
  /\ route = "/chat"
  /\ r \in chatReaders
  /\ chatReaders' = chatReaders \ {r}
  /\ chatSelectedImage' = readAsDataURL(r.file, ok)
  /\ toast' = NoToast
  /\ lastOp' = "chatLoadEnd"
  /\ UNCHANGED <<messages, inputMessage, chatIsLoading, sessionId, chatReads,
                 chatReqs, sendCount, historyReq, now, homeVars, historyVars, route>>

\* the remove button of the attachment preview
RemoveImageClick ==
  /\ route = "/chat"
  /\ Truthy(chatSelectedImage)
  /\ chatSelectedImage' = null
  /\ toast' = NoToast
  /\ lastOp' = "removeImage"
  /\ UNCHANGED <<messages, inputMessage, chatIsLoading, sessionId,
                 chatReaders, chatReads, chatReqs, sendCount, historyReq,
                 now, homeVars, historyVars, route>>

\* variant: the composer text is tested without trim()
SendGuardRejects_NoTrim == ~Truthy(inputMessage) /\ ~Truthy(chatSelectedImage)

\* the condition of the first line of sendMessage
SendGuardRejects == ~Truthy(trim(inputMessage)) /\ ~Truthy(chatSelectedImage)

\* variant: the session id is computed again from the clock at every send
sendMessage_FreshSessionId ==
  IF SendGuardRejects
    THEN /\ lastOp' = "sendRejected"
         /\ toast' = NoToast
         /\ UNCHANGED <<route, pageVars>>
    ELSE /\ messages' = Append(messages,
              [role |-> "user", message |-> inputMessage,
               image_base64 |-> chatSelectedImage, timestamp |-> now,
               call |-> sendCount + 1])
         /\ inputMessage' = ""
         /\ chatSelectedImage' = null
         /\ chatIsLoading' = TRUE
         /\ sendCount' = sendCount + 1
         /\ chatReqs' = chatReqs \cup
              {[call |-> sendCount + 1,
                session_id |-> "session_" \o ToString(now),
                message |-> IF Truthy(inputMessage) THEN inputMessage
                            ELSE "Please analyze this image",
                image_base64 |-> IF Truthy(chatSelectedImage)
                                   THEN SplitComma1(chatSelectedImage)
                                   ELSE null,
                image |-> chatSelectedImage]}
         /\ now' = now + 1
         /\ toast' = NoToast
         /\ lastOp' = "send"
         /\ UNCHANGED <<sessionId, chatReaders, chatReads, historyReq,
                        homeVars, historyVars, route>>

\* sendMessage up to the await of axios.post
sendMessage ==
  IF SendGuardRejects
    THEN /\ lastOp' = "sendRejected"
         /\ toast' = NoToast
         /\ UNCHANGED <<route, pageVars>>
    ELSE /\ messages' = Append(messages,
              [role |-> "user", message |-> inputMessage,
               image_base64 |-> chatSelectedImage, timestamp |-> now,
               call |-> sendCount + 1])
         /\ inputMessage' = ""
         /\ chatSelectedImage' = null
         /\ chatIsLoading' = TRUE
         /\ sendCount' = sendCount + 1
         /\ chatReqs' = chatReqs \cup
              {[call |-> sendCount + 1,
                session_id |-> sessionId,
                message |-> IF Truthy(inputMessage) THEN inputMessage
                            ELSE "Please analyze this image",
                image_base64 |-> IF Truthy(chatSelectedImage)
                                   THEN SplitComma1(chatSelectedImage)
                                   ELSE null,
                image |-> chatSelectedImage]}
         /\ now' = now + 1
         /\ toast' = NoToast
         /\ lastOp' = "send"
         /\ UNCHANGED <<sessionId, chatReaders, chatReads, historyReq,
                        homeVars, historyVars, route>>

SendButtonDisabled == SendGuardRejects \/ chatIsLoading

\* a click on the send button; a disabled button dispatches no onClick
SendClick ==
  /\ route = "/chat"
  /\ ~SendButtonDisabled => sendCount < MaxSends
  /\ IF SendButtonDisabled
       THEN UNCHANGED vars
       ELSE sendMessage

\* onKeyPress of the chat input
handleKeyPress(key, shiftKey) ==
  /\ route = "/chat"
  /\ (key = "Enter" /\ ~shiftKey /\ ~SendGuardRejects) => sendCount < MaxSends
  /\ IF key = "Enter" /\ ~shiftKey
       THEN sendMessage
       ELSE UNCHANGED vars

\* variant: the loading flag is cleared on the failure path only
ChatSuccess_NoFinally(q, text) ==
  /\ route = "/chat"
  /\ q \in chatReqs
  /\ chatReqs' = chatReqs \ {q}
  /\ messages' = Append(messages,
       [role |-> "assistant", message |-> text, image_base64 |-> undefined,
        timestamp |-> now, call |-> q.call])
  /\ now' = now + 1
  /\ toast' = NoToast
  /\ lastOp' = "chatSuccess"
  /\ UNCHANGED <<inputMessage, chatIsLoading, sessionId, chatSelectedImage,
                 chatReaders, chatReads, sendCount, historyReq, homeVars,
                 historyVars, route>>

\* axios.post resolves: the rest of the try block, then finally
ChatSuccess(q, text) ==
  /\ route = "/chat"
  /\ q \in chatReqs
  /\ chatReqs' = chatReqs \ {q}
  /\ messages' = Append(messages,
       [role |-> "assistant", message |-> text, image_base64 |-> undefined,
        timestamp |-> now, call |-> q.call])
  /\ chatIsLoading' = FALSE
  /\ now' = now + 1
  /\ toast' = NoToast
  /\ lastOp' = "chatSuccess"
  /\ UNCHANGED <<inputMessage, sessionId, chatSelectedImage, chatReaders,
                 chatReads, sendCount, historyReq, homeVars, historyVars, route>>

ChatFail_RollsBack(q) ==
  /\ route = "/chat"
  /\ q \in chatReqs
  /\ chatReqs' = chatReqs \ {q}
  /\ messages' = SubSeq(messages, 1, Len(messages) - 1)
  /\ toast' = [level |-> "error", text |-> "Failed to send message"]
  /\ chatIsLoading' = FALSE
  /\ lastOp' = "chatFail"
  /\ UNCHANGED <<inputMessage, sessionId, chatSelectedImage, chatReaders,
                 chatReads, sendCount, historyReq, now, homeVars,
                 historyVars, route>>

\* axios.post rejects: the catch block, then finally
ChatFail(q) ==
  /\ route = "/chat"
  /\ q \in chatReqs
  /\ chatReqs' = chatReqs \ {q}
  /\ toast' = [level |-> "error", text |-> "Failed to send message"]
  /\ chatIsLoading' = FALSE
  /\ lastOp' = "chatFail"
  /\ UNCHANGED <<messages, inputMessage, sessionId, chatSelectedImage,
                 chatReaders, chatReads, sendCount, historyReq, now, homeVars, historyVars, route>>

\* the src attribute of the image rendered for a message with an attachment
MessageImageSrc(msg) == "data:image/jpeg;base64," \o msg.image_base64

ChatNext ==
  \/ \E data \in HistoryResponses : ChatHistoryLoaded(data)
  \/ ChatHistoryFailed
  \/ \E t \in Texts : setInputMessage(t)
  \/ \E f \in ChatFiles \cup {NoFile} : ChatHandleImageSelect(f)
  \/ \E r \in chatReaders, ok \in BOOLEAN : ChatReaderLoadEnd(r, ok)
  \/ RemoveImageClick
  \/ SendClick
  \/ \E key \in {"Enter", "a"}, shiftKey \in BOOLEAN : handleKeyPress(key, shiftKey)
  \/ \E q \in chatReqs, text \in ReplyTexts : ChatSuccess(q, text)
  \/ \E q \in chatReqs : ChatFail(q)

\* ============================================================= HistoryPage

\* response.data of GET /api/predictions
PredictionLists ==
  { <<>>,
    << [id |-> "p2", disease_name |-> "Healthy", confidence |-> 88,
        description |-> "No disease found", timestamp |-> "2024-05-02T10:00:00Z"],
       [id |-> "p1", disease_name |-> "Leaf Blight", confidence |-> 92,
        description |-> "Fungal infection", timestamp |-> "2024-05-01T09:30:00Z"] >> }

HistoryInit ==
  /\ predictions = <<>>
  /\ historyIsLoading = TRUE
  \* the mount effect has called loadHistory, which is at its await
  /\ predictionsReq = "pending"
  /\ lastLoaded = <<>>

\* loadHistory: axios.get resolves, then finally
PredictionsLoaded(data) ==
  /\ route = "/history"
  /\ predictionsReq = "pending"
  /\ predictionsReq' = "loaded"
  /\ predictions' = data
  /\ lastLoaded' = data
  /\ historyIsLoading' = FALSE
  /\ toast' = NoToast
  /\ lastOp' = "predictionsLoaded"
  /\ UNCHANGED <<route, homeVars, chatVars>>

\* loadHistory: axios.get rejects: the catch block, then finally
PredictionsLoadFailed ==
  /\ route = "/history"
  /\ predictionsReq = "pending"
  /\ predictionsReq' = "failed"
  /\ toast' = [level |-> "error", text |-> "Failed to load history"]
  /\ historyIsLoading' = FALSE
  /\ lastOp' = "predictionsLoadFailed"
  /\ UNCHANGED <<route, predictions, lastLoaded, homeVars, chatVars>>

HistoryNext ==
  \/ \E data \in PredictionLists : PredictionsLoaded(data)
  \/ PredictionsLoadFailed

\* ================================================================== Layout

navItems == {"/", "/chat", "/history"}

\* a click on a button of the bottom navigation: the router unmounts the
\* current page, whose state and pending callbacks are lost, and mounts the
\* page of the path with its initial state
navigate(path) ==
  /\ path # route
  /\ route' = path
  \* useState initial values of HomePage
  /\ homeSelectedImage' = null
  /\ homeIsLoading' = FALSE
  /\ prediction' = nullPrediction
  /\ homeReaders' = {}
  /\ homeReads' = 0
  /\ predictReqs' = {}
  /\ predictCalls' = 0
  /\ settled' = NoneSettled
  \* useState initial values and mount effect of ChatPage
  /\ messages' = <<>>
  /\ inputMessage' = ""
  /\ chatIsLoading' = FALSE
  /\ now' = 0
  /\ sessionId' = "session_" \o ToString(now')
  /\ chatSelectedImage' = null
  /\ chatReaders' = {}
  /\ chatReads' = 0
  /\ chatReqs' = {}
  /\ sendCount' = 0
  /\ historyReq' = [state |-> "pending", session_id |-> sessionId']
  \* useState initial values and mount effect of HistoryPage
  /\ predictions' = <<>>
  /\ historyIsLoading' = TRUE
  /\ predictionsReq' = "pending"
  /\ lastLoaded' = lastLoaded
  /\ toast' = NoToast
  /\ lastOp' = "mount"

\* ============================================================ specifications

\* the application opens on the index route; the state variables of a page
\* that is not mounted hold their initial values
Init ==
  /\ route = "/"
  /\ HomeInit
  /\ ChatInit
  /\ HistoryInit
  /\ toast = NoToast
  /\ lastOp = "mount"

Next ==
  \/ HomeNext
  \/ ChatNext
  \/ HistoryNext
  \/ \E path \in navItems : navigate(path)

Spec == Init /\ [][Next]_vars

\* the pending POST /api/predict settles: its promise resolves or rejects
PredictResolves ==
  \E q \in predictReqs :
    \/ \E body \in PredictionBodies : PredictSuccess(q, body)
    \/ \E detail \in ErrorDetails : PredictFail(q, detail)

\* a pending POST /api/chat settles: its promise resolves or rejects
ChatResolves ==
  \E q \in chatReqs :
    \/ \E text \in ReplyTexts : ChatSuccess(q, text)
    \/ ChatFail(q)

\* the transport settles every request of a mounted page: the continuation
\* of an awaited axios.post runs for as long as its page stays mounted
FairSpec == Spec /\ WF_vars(PredictResolves) /\ WF_vars(ChatResolves)

\* ================================================================== claims

IsPrefix(s, t) == Len(s) <= Len(t) /\ SubSeq(t, 1, Len(s)) = s

\* every character of s is white space
IsBlank(s) == \A i \in 1..Len(s) : CharAt(s, i) \in Whitespace

\* u is data:<type>;base64,<body> with a single comma and a body
WellFormedDataUri(u) ==
  LET c == CommaFrom(u, 1) IN
  /\ startsWith(u, "data:")
  /\ c > 0
  /\ c < Len(u)
  /\ CommaFrom(u, c + 1) = 0
  /\ SubSeq(u, c - Len(";base64") + 1, c - 1) = "base64"

\* the part of s that follows its first comma
AfterFirstComma(s) == SubSeq(s, CommaFrom(s, 1) + 1, Len(s))

InvalidFileToast ==
  [level |-> "error", text |-> "Please select a valid image file"]

\* C1: while isLoading is true no send is accepted: no step taken from such
\* a state runs sendMessage past its guard or issues a POST /api/chat
SendsSerialized ==
  [][chatIsLoading => (lastOp' # "send" /\ chatReqs' \subseteq chatReqs)]_vars

\* C2: the reply of send call N comes after the user message of call N and
\* before every message of a later call: no message that precedes a reply in
\* the local sequence belongs to a later call than the reply
ChatOrdering ==
  \A j, k \in DOMAIN messages :
    (j < k /\ messages[k].role = "assistant" /\ messages[k].call > 0)
      => messages[j].call <= messages[k].call

\* C3: within one mounted chat view every step leaves the previous message
\* sequence as a prefix of the next one
MessagesAppendOnly ==
  [][route' = route => IsPrefix(messages, messages')]_vars

\* C4: at most one POST /api/predict is in flight, and it is in flight only
\* while isLoading disables the analyze button
AtMostOnePredictInFlight ==
  /\ Cardinality(predictReqs) <= 1
  /\ predictReqs # {} => homeIsLoading

\* C4 witness: a request is pending, an image is selected and the analyze
\* button is rendered but disabled, so a second click issues nothing
SecondSubmitWhilePending ==
  /\ route = "/"
  /\ predictCalls = 1
  /\ Cardinality(predictReqs) = 1
  /\ Truthy(homeSelectedImage)
  /\ AnalyzeButtonRendered
  /\ AnalyzeButtonDisabled

\* C5: after resetAnalysis the controller is Idle: no image, no prediction
\* and the loading flag cleared
ResetReturnsToIdle ==
  lastOp = "reset" =>
    /\ homeSelectedImage = null
    /\ prediction = nullPrediction
    /\ ~homeIsLoading

\* C6: the result of a read that a later read of the same slot has
\* superseded is discarded: its onloadend leaves the selection unchanged
LastCallWins ==
  [][route' = route =>
       /\ \A r \in homeReaders :
            (r \notin homeReaders' /\ r.gen < homeReads)
              => homeSelectedImage' = homeSelectedImage
       /\ \A r \in chatReaders :
            (r \notin chatReaders' /\ r.gen < chatReads)
              => chatSelectedImage' = chatSelectedImage]_vars

\* C7: no read is ever started for a file whose type does not start with
\* image/, and a rejected selection raises the invalid-file error and leaves
\* the selection and all other page state unchanged
InvalidMediaTypeRejected ==
  /\ [](\A r \in homeReaders \cup chatReaders :
          startsWith(r.file.type, "image/"))
  /\ [][lastOp' \in {"homeSelectRejected", "chatSelectRejected"}
          => (toast' = InvalidFileToast /\ UNCHANGED <<route, pageVars>>)]_vars

\* C7 witness: a non-image file was rejected while an image was selected
RejectedWithSelectionKept ==
  /\ lastOp = "homeSelectRejected"
  /\ toast = InvalidFileToast
  /\ Truthy(homeSelectedImage)

\* C8: after a failed diagnosis request the loading flag is cleared, no
\* prediction is present, the selected image is the submitted one and the
\* error shown is the service detail, or the generic message without one
PredictFailureKeepsSelection ==
  lastOp = "predictFail" =>
    /\ ~homeIsLoading
    /\ prediction = nullPrediction
    /\ homeSelectedImage = settled.req.image
    /\ toast = [level |-> "error",
                text |-> IF settled.detail \in {undefined, ""}
                           THEN "Failed to analyze image"
                           ELSE settled.detail]

\* C9: after a successful diagnosis request the loading flag is cleared and
\* the prediction held is the response body of that request, field by field
PredictSuccessResolves ==
  lastOp = "predictSuccess" =>
    /\ ~homeIsLoading
    /\ prediction # nullPrediction
    /\ prediction = settled.body
    /\ prediction.treatments = settled.body.treatments
    /\ prediction.prevention_tips = settled.body.prevention_tips

\* C9 witness: the request of the selected image resolved with a body that
\* lists two treatment steps
ResolvedWithPrediction ==
  /\ lastOp = "predictSuccess"
  /\ settled.req.image = homeSelectedImage
  /\ Len(prediction.treatments) = 2

\* C10: from a state with a blank composer text and no attachment no step
\* sends: no POST /api/chat is issued, and the rejected sendMessage changes
\* nothing of the page
EmptySendRejected ==
  [][(IsBlank(inputMessage) /\ chatSelectedImage = null)
       => /\ lastOp' # "send"
          /\ chatReqs' \subseteq chatReqs
          /\ lastOp' = "sendRejected"
               => (UNCHANGED <<route, pageVars>> /\ toast' = NoToast)]_vars

\* C10 witness: sendMessage was rejected on a white-space-only text
WhitespaceSendRejected ==
  /\ lastOp = "sendRejected"
  /\ inputMessage # ""
  /\ IsBlank(inputMessage)
  /\ chatSelectedImage = null
  /\ messages = <<>>

\* C11: the step that fails a chat request clears isLoading, shows the
\* send-failure error, leaves the message sequence as it is (the user
\* message of that send stays, no assistant message of that send exists)
\* and issues no request
ChatFailureKeepsUserMessage ==
  [][\A q \in chatReqs :
       (lastOp' = "chatFail" /\ q \notin chatReqs')
         => /\ ~chatIsLoading'
            /\ toast' = [level |-> "error", text |-> "Failed to send message"]
            /\ messages' = messages
            /\ \A i \in DOMAIN messages' :
                 messages'[i].call = q.call => messages'[i].role = "user"
            /\ chatReqs' = chatReqs \ {q}
            /\ sendCount' = sendCount]_vars

\* C11 witness: the only request failed and the user message of its send is
\* the last message of the sequence
FailedSendKept ==
  /\ lastOp = "chatFail"
  /\ chatReqs = {}
  /\ sendCount = 1
  /\ Len(messages) > 0
  /\ messages[Len(messages)].role = "user"
  /\ messages[Len(messages)].call = 1
  /\ ~chatIsLoading

\* C12: after a failed history load the list shown is the list of the last
\* load that succeeded, or empty when none did
FailedLoadShowsLastLoaded ==
  lastOp = "predictionsLoadFailed" => predictions = lastLoaded

\* C13: the session id of the chat view is the one its history fetch
\* carried at mount, and every POST /api/chat in flight carries it too
SessionIdStable ==
  /\ historyReq.session_id = sessionId
  /\ \A q \in chatReqs : q.session_id = sessionId

\* C13 witness: after the history was restored and the clock has advanced,
\* the second send of the view is in flight with the id of the history fetch
SecondSendSameSession ==
  /\ route = "/chat"
  /\ historyReq.state = "loaded"
  /\ sendCount = 2
  /\ now > 0
  /\ \E q \in chatReqs : q.call = 2 /\ q.session_id = historyReq.session_id

\* C14: under FairSpec a set loading flag is always followed by a state in
\* which it is cleared, on the home page and on the chat page
LoadingEventuallyCleared ==
  /\ homeIsLoading ~> ~homeIsLoading
  /\ chatIsLoading ~> ~chatIsLoading

\* C14 witness: both round trips of the chat view have ended, the last one
\* with a reply, and the flag is cleared
RoundTripsEnded ==
  /\ route = "/chat"
  /\ lastOp = "chatSuccess"
  /\ sendCount = 2
  /\ chatReqs = {}
  /\ ~chatIsLoading

\* C15: from a state with a POST /api/predict in flight no step starts a
\* file read or applies the result of one to the selected image
SelectionDisabledWhilePending ==
  [][predictReqs # {}
       => /\ lastOp' \notin {"homeSelectRead", "homeLoadEnd"}
          /\ homeReaders' \subseteq homeReaders]_vars

\* C16: after the result of a successful read was applied as the selected
\* image no prediction is present
SelectionDiscardsPrediction ==
  (lastOp = "homeLoadEnd" /\ Truthy(homeSelectedImage))
    => prediction = nullPrediction

\* C17: the attachment of every message of the local sequence is in
\* transport form (no data-URI prefix), equals the image_base64 of the
\* request of its send, and renders as a well-formed data URI
AttachmentInTransportForm ==
  \A i \in DOMAIN messages :
    Truthy(messages[i].image_base64)
      => /\ ~startsWith(messages[i].image_base64, "data:")
         /\ \A q \in chatReqs :
              q.call = messages[i].call
                => q.image_base64 = messages[i].image_base64
         /\ WellFormedDataUri(MessageImageSrc(messages[i]))

\* C18: the user message appended by an accepted send carries the composer
\* text, or the placeholder when that text is empty, and the request of the
\* send carries the same text
SentTextMatchesRequest ==
  [][sendCount' = sendCount + 1
       => LET sent == messages'[Len(messages')]
              text == IF inputMessage = "" THEN "Please analyze this image"
                      ELSE inputMessage
          IN /\ sent.role = "user"
             /\ sent.message = text
             /\ \A q \in chatReqs' \ chatReqs : q.message = sent.message]_vars

\* C19: the onloadend of a read that failed (it delivers no data URI)
\* raises an error notification, leaves the selected image as it was and
\* starts no further read
ReadFailureSurfaced ==
  [][/\ (lastOp' = "homeLoadEnd" /\ homeReaders' # homeReaders
           /\ ~Truthy(homeSelectedImage'))
        => /\ toast'.level = "error"
           /\ homeSelectedImage' = homeSelectedImage
           /\ homeReaders' \subseteq homeReaders
     /\ (lastOp' = "chatLoadEnd" /\ chatReaders' # chatReaders
           /\ ~Truthy(chatSelectedImage'))
        => /\ toast'.level = "error"
           /\ chatSelectedImage' = chatSelectedImage
           /\ chatReaders' \subseteq chatReaders]_vars

\* C20: the image_base64 of every POST /api/predict, and of every POST
\* /api/chat sent with an attachment, is the part after the first comma of
\* the data URI selected when the request was made, and has no data-URI
\* prefix; a chat request without attachment carries null
PayloadIsBase64Body ==
  /\ \A q \in predictReqs :
       /\ WellFormedDataUri(q.image)
       /\ q.image_base64 = AfterFirstComma(q.image)
       /\ ~startsWith(q.image_base64, "data:")
  /\ \A q \in chatReqs :
       IF Truthy(q.image)
         THEN /\ WellFormedDataUri(q.image)
              /\ q.image_base64 = AfterFirstComma(q.image)
              /\ ~startsWith(q.image_base64, "data:")
         ELSE q.image_base64 = null

\* C20 witness: a chat request with text and attachment is in flight and
\* carries the base64 body of the attached image
AttachmentRequestInFlight ==
  \E q \in chatReqs :
    /\ q.image = "data:image/jpeg;base64,QUJD"
    /\ q.image_base64 = "QUJD"
    /\ q.message = "hi"

\* C21: on the home page and on the chat page isLoading is true in exactly
\* the states in which a request of the page is in flight
LoadingIffRequestOutstanding ==
  /\ homeIsLoading <=> predictReqs # {}
  /\ chatIsLoading <=> chatReqs # {}

\* C22: whenever a prediction is present an image is selected, and the
\* prediction is the response body of the request that carried the payload
\* of that image
PredictionMatchesSelection ==
  prediction # nullPrediction
    => /\ Truthy(homeSelectedImage)
       /\ settled.body = prediction
       /\ settled.req.image = homeSelectedImage
       /\ settled.req.image_base64 = AfterFirstComma(homeSelectedImage)

====
